---------------------------- MODULE Spec2Model ----------------------------
(***************************************************************************)
(* A model of biokbase/narrative/jobmanager/methodmanager.py: the          *)
(* MethodManager that flattens a method specification into parameter       *)
(* descriptors (_method_params) and validates the keyword arguments of a   *)
(* run (run_method, _check_parameter, _validate_param_value).              *)
(*                                                                         *)
(* Python values are records tagged by their kind (field k).  A dict is a  *)
(* TLA+ function on strings; "key in d" is  key \in DOMAIN d.  An error    *)
(* string is a value of kind "msg" holding the sequence of its formatted   *)
(* parts, so that ", ".join concatenates the parts of its operands.        *)
(***************************************************************************)
EXTENDS Integers, Sequences, FiniteSets, TLC

\* ------------------------------------------------------------------ bounds

\* Numbers of the model range over -1 .. MaxNum + 1; declared bounds over 0 .. MaxNum.
MaxNum == 2
\* Longest list supplied for a parameter.
MaxListLen == 2

\* ----------------------------------------------------------- Python values

None == [k |-> "none"]
PyStr(s) == [k |-> "str", s |-> s]
PyInt(n) == [k |-> "int", n |-> n]
PyFloat(n) == [k |-> "float", f |-> n]
PyList(s) == [k |-> "list", items |-> s]
PyDict == [k |-> "dict"]
\* A type name of the workspace (info[2]): a string, held as its tokens.
PyType(t) == [k |-> "type", t |-> t]
IsNone(value) == value.k = "none"
Msg(parts) == [k |-> "msg", parts |-> parts]
\* One formatted error text: the format string and the values put into it.
Part(text, args) == [text |-> text, args |-> args]

\* isinstance(value, basestring) / int / float / list
IsString(value) == value.k = "str"
IsInt(value) == value.k = "int"
IsFloat(value) == value.k = "float"
IsList(value) == value.k = "list"

\* Python truth value of an object: None, 0, 0.0, "", [] and {} are false.
Truthy(value) ==
    CASE value.k = "none" -> FALSE
      [] value.k = "str" -> value.s # ""
      [] value.k = "int" -> value.n # 0
      [] value.k = "float" -> value.f # 0
      [] value.k = "list" -> value.items # <<>>
      [] value.k = "msg" -> value.parts # <<>>
      [] OTHER -> FALSE

\* The strings float() parses, with the number each denotes.
NumericStrings == {"0", "1", "2"}
ParseNumber(s) == CASE s = "0" -> 0 [] s = "1" -> 1 [] s = "2" -> 2
\* float(value): the number, or a raise (ValueError / TypeError).
FloatOf(value) ==
    CASE value.k = "int" -> [ok |-> TRUE, n |-> value.n]
      [] value.k = "float" -> [ok |-> TRUE, n |-> value.f]
      [] value.k = "str" /\ value.s \in NumericStrings ->
            [ok |-> TRUE, n |-> ParseNumber(value.s)]
      [] OTHER -> [ok |-> FALSE, n |-> 0]

\* d with d[key] = val  (p_info['x'] = ...)
Put(d, key, val) == [x \in DOMAIN d \cup {key} |-> IF x = key THEN val ELSE d[x]]

\* str.lower() on the field types of the model.
Lower(s) == IF s = "Dropdown" THEN "dropdown" ELSE s

\* re.match(pattern, string) for patterns of literal tokens and the wildcard
\* ".": the pattern matches a prefix of the string.
ReMatch(pattern, string) ==
    /\ Len(pattern) <= Len(string)
    /\ \A i \in 1..Len(pattern) : pattern[i] = string[i] \/ pattern[i] = "."

\* ------------------------------------------------------ _method_params

DropdownStep(p, p_info) ==
    IF Lower(p_info["type"]) = "dropdown"
    THEN LET options == p["dropdown_options"]["options"]
         IN  Put(p_info, "allowed_values",
                 [i \in 1..Len(options) |-> options[i]["value"]])
    ELSE p_info

\* One  if 'key' in opts: p_info[field] = opts[key]  line.
Opt(opts, key, field, p_info) ==
    IF key \in DOMAIN opts THEN Put(p_info, field, opts[key]) ELSE p_info

RegexStep(opts, p_info) ==
    IF "regex_constraint" \in DOMAIN opts /\ Len(opts["regex_constraint"]) # 0
    THEN Put(p_info, "regex_constraint", opts["regex_constraint"])
    ELSE p_info

\* A builder that keeps the reference types of input parameters only.
AllowedTypesStep_InputsOnly(opts, p_info) ==
    IF p_info["is_output"] THEN p_info
    ELSE Opt(opts, "valid_ws_types", "allowed_types", p_info)

AllowedTypesStep(opts, p_info) == Opt(opts, "valid_ws_types", "allowed_types", p_info)

TextOptionsStep(p, p_info) ==
    IF "text_options" \in DOMAIN p
    THEN LET opts == p["text_options"]
             i1 == Opt(opts, "is_output_name", "is_output", p_info)
             i2 == AllowedTypesStep(opts, i1)
             i3 == Opt(opts, "validate_as", "type", i2)
             i4 == Opt(opts, "min_float", "min_val", i3)
             i5 == Opt(opts, "min_int", "min_val", i4)
             i6 == Opt(opts, "max_float", "max_val", i5)
             i7 == Opt(opts, "max_int", "max_val", i6)
         IN  RegexStep(opts, i7)
    ELSE p_info

\* The descriptor of one raw parameter record (the body of the loop).
ParamInfo(p) ==
    LET base == [id |-> p["id"],
                 optional |-> (p["optional"] # 0),
                 short_hint |-> p["short_hint"],
                 description |-> p["description"],
                 type |-> p["field_type"],
                 is_output |-> FALSE]
        withOpts == TextOptionsStep(p, DropdownStep(p, base))
    IN  Put(withOpts, "allow_multiple", p["allow_multiple"] = 1)

\* sorted(params, key=lambda p: (p['optional'], p['is_output'])): a stable sort,
\* False before True.
SortKeys == << <<FALSE, FALSE>>, <<FALSE, TRUE>>, <<TRUE, FALSE>>, <<TRUE, TRUE>> >>
RECURSIVE SortedFrom(_, _)
SortedFrom(params, i) ==
    IF i > Len(SortKeys) THEN <<>>
    ELSE LET HasKey(q) == <<q["optional"], q["is_output"]>> = SortKeys[i]
         IN  SelectSeq(params, HasKey) \o SortedFrom(params, i + 1)
Sorted(params) == SortedFrom(params, 1)

_method_params(spec) ==
    Sorted([i \in 1..Len(spec["parameters"]) |-> ParamInfo(spec["parameters"][i])])

\* ------------------------------------------------ _validate_param_value

\* What a call of a validation function did: it returned ret (exc = "") or let
\* the exception exc escape; lookups are the calls it made, in order, of
\* ws_client.get_object_info_new.
Returned(ret, lookups) == [exc |-> "", ret |-> ret, lookups |-> lookups]
Raised(exc, lookups) == [exc |-> exc, ret |-> None, lookups |-> lookups]

\* a == b on Python values: numbers compare by value, whatever their kind.
PyEq(a, b) ==
    IF a.k \in {"int", "float"} /\ b.k \in {"int", "float"}
    THEN FloatOf(a).n = FloatOf(b).n
    ELSE a.k = b.k /\ a = b

\* self.ws_client.get_object_info_new({'objects': [{'workspace', 'name'}]})[0]:
\* the object's info tuple (info[2] is its type), or a raise when the service
\* is unreachable or holds no such object.
GetObjectInfoNew(ws_client, workspace, name) ==
    IF ws_client.up /\ name \in DOMAIN ws_client.objects
    THEN [ok |-> TRUE, type |-> ws_client.objects[name], e |-> ""]
    ELSE [ok |-> FALSE, type |-> <<>>,
          e |-> IF ws_client.up THEN "No object with name" ELSE "Connection refused"]

ErrUnsupported ==
    Msg(<<Part("input type not supported - only str, int, float, or list", <<>>)>>)
ErrNotInt(value) == Msg(<<Part("Given value {} is not an int", <<value>>)>>)
ErrNotNumber(value) == Msg(<<Part("Given value {} is not a number", <<value>>)>>)
ErrTypeMismatch(type) ==
    Msg(<<Part("Type of data object, {}, does not match allowed types", <<PyType(type)>>)>>)
ErrNotFound(value, e) ==
    Msg(<<Part("Data object named {} not found with this Narrative. (additional info: {})",
               <<value, PyStr(e)>>)>>)
ErrNotPermitted == Msg(<<Part("Given value is not permitted in the allowed set.", <<>>)>>)
ErrTooLarge(value, max_val) ==
    Msg(<<Part("Given value {} should be <= {}", <<value, PyFloat(max_val)>>)>>)
ErrTooSmall(value, min_val) ==
    Msg(<<Part("Given value {} should be >= {}", <<value, PyFloat(min_val)>>)>>)
ErrMustBeNumber(value) == Msg(<<Part("Given value {} must be a number", <<value>>)>>)

\* Lines 282-285: only str, int and float get past the first test.
ScalarKindOk(value) == IsString(value) \/ IsInt(value) \/ IsFloat(value)

\* Lines 289-292: None, or the error of the int / float type check.
TypeCheck(param, value) ==
    IF param["type"] = "int" /\ ~IsInt(value) THEN ErrNotInt(value)
    ELSE IF param["type"] = "float" /\ ~(IsFloat(value) \/ IsInt(value))
         THEN ErrNotNumber(value)
         ELSE None

\* A lookup test that forgets the output flag.
NeedsLookup_Outputs(param) == "allowed_types" \in DOMAIN param

\* Line 295: whether the value is looked up in the workspace.
NeedsLookup(param) == "allowed_types" \in DOMAIN param /\ ~param["is_output"]

\* Lines 296-305: the lookup and the match of the object's type.
RefCheck(param, value, workspace, ws_client) ==
    LET info == GetObjectInfoNew(ws_client, workspace, value)
        call == [param |-> param["id"], workspace |-> workspace, name |-> value,
                 found |-> info.ok]
        type_ok == \E i \in 1..Len(param["allowed_types"]) :
                       ReMatch(param["allowed_types"][i], info.type)
    IN  IF ~info.ok THEN Returned(ErrNotFound(value, info.e), <<call>>)
        ELSE IF ~type_ok THEN Returned(ErrTypeMismatch(info.type), <<call>>)
             ELSE Returned(None, <<call>>)

\* Lines 308-310.
AllowedValuesCheck(param, value) ==
    IF "allowed_values" \in DOMAIN param
       /\ ~\E i \in 1..Len(param["allowed_values"]) : PyEq(value, param["allowed_values"][i])
    THEN ErrNotPermitted
    ELSE None

\* A max_val test with an exclusive bound.
MaxCheck_Exclusive(param, value) ==
    IF "max_val" \in DOMAIN param
    THEN LET f == FloatOf(value)
         IN  IF ~f.ok THEN ErrMustBeNumber(value)
             ELSE IF f.n >= param["max_val"] THEN ErrTooLarge(value, param["max_val"])
                  ELSE None
    ELSE None

\* Lines 313-318.
MaxCheck(param, value) ==
    IF "max_val" \in DOMAIN param
    THEN LET f == FloatOf(value)
         IN  IF ~f.ok THEN ErrMustBeNumber(value)
             ELSE IF f.n > param["max_val"] THEN ErrTooLarge(value, param["max_val"])
                  ELSE None
    ELSE None

\* Lines 320-325.
MinCheck(param, value) ==
    IF "min_val" \in DOMAIN param
    THEN LET f == FloatOf(value)
         IN  IF ~f.ok THEN ErrMustBeNumber(value)
             ELSE IF f.n < param["min_val"] THEN ErrTooSmall(value, param["min_val"])
                  ELSE None
    ELSE None

\* Lines 328-331: the loop reads the name regex_constraint, which is bound
\* nowhere (the list is param['regex_constraint']): a NameError.
RegexCheck(param, value, lookups) ==
    IF "regex_constraint" \in DOMAIN param
    THEN Raised("NameError", lookups)
    ELSE Returned(None, lookups)

\* The first of three results that is an error, if any.
FirstError(e1, e2, e3) ==
    IF ~IsNone(e1) THEN e1 ELSE IF ~IsNone(e2) THEN e2 ELSE e3

\* Lines 307-334, after the lookup made the calls in lookups.
AfterLookup(param, value, lookups) ==
    LET err == FirstError(AllowedValuesCheck(param, value), MaxCheck(param, value),
                          MinCheck(param, value))
    IN  IF ~IsNone(err) THEN Returned(err, lookups)
        ELSE RegexCheck(param, value, lookups)

\* Lines 302-334, with what the lookup and the type match gave.
AfterRef(param, value, ref) ==
    IF ~IsNone(ref.ret) THEN ref ELSE AfterLookup(param, value, ref.lookups)

\* Lines 294-334, past the scalar-kind and type checks.
CheckedValue(param, value, workspace, ws_client) ==
    IF NeedsLookup(param)
    THEN AfterRef(param, value, RefCheck(param, value, workspace, ws_client))
    ELSE AfterLookup(param, value, <<>>)

\* Lines 287-334, with the result of the type check.
AfterTypeCheck(param, value, workspace, ws_client, type_err) ==
    IF ~IsNone(type_err) THEN Returned(type_err, <<>>)
    ELSE CheckedValue(param, value, workspace, ws_client)

_validate_param_value(param, value, workspace, ws_client) ==
    IF ~ScalarKindOk(value) THEN Returned(ErrUnsupported, <<>>)
    ELSE AfterTypeCheck(param, value, workspace, ws_client, TypeCheck(param, value))

\* ------------------------------------------------------ _check_parameter

\* ", ".join(error_list)
Join(error_list) ==
    LET RECURSIVE Cat(_)
        Cat(i) == IF i > Len(error_list) THEN <<>>
                  ELSE error_list[i].parts \o Cat(i + 1)
    IN  Msg(Cat(1))

\* Lines 265-267: what one element's validation r adds to the errors and the
\* lookups so far.
ElementRound(acc, r) ==
    [exc |-> r.exc,
     error_list |-> IF r.exc = "" /\ Truthy(r.ret) THEN Append(acc.error_list, r.ret)
                                                  ELSE acc.error_list,
     lookups |-> acc.lookups \o r.lookups]

\* Lines 263-267: the loop over value[i..]; an exception of one element ends it.
RECURSIVE ElementLoop(_, _, _, _, _, _)
ElementLoop(param, value, workspace, ws_client, i, acc) ==
    IF i > Len(value.items) \/ acc.exc # "" THEN acc
    ELSE ElementLoop(param, value, workspace, ws_client, i + 1,
             ElementRound(acc,
                 _validate_param_value(param, value.items[i], workspace, ws_client)))

\* Lines 268-271.
ListResult(loop) ==
    IF loop.exc # "" THEN Raised(loop.exc, loop.lookups)
    ELSE IF Len(loop.error_list) # 0
         THEN Returned(Join(loop.error_list), loop.lookups)
         ELSE Returned(None, loop.lookups)

_check_parameter(param, value, workspace, ws_client) ==
    IF param["allow_multiple"] /\ IsList(value)
    THEN ListResult(ElementLoop(param, value, workspace, ws_client, 1,
                                [exc |-> "", error_list |-> <<>>, lookups |-> <<>>]))
    ELSE _validate_param_value(param, value, workspace, ws_client)

\* ------------------------------------------------------------ method_util

\* method_util.method_version_tags
method_version_tags == <<"release", "beta", "dev">>

\* method_util.check_tag(tag, raise_exception): whether tag is a version tag;
\* with raise_exception an invalid tag raises ValueError.
check_tag(tag, raise_exception) ==
    IF \E i \in 1..Len(method_version_tags) : method_version_tags[i] = tag
    THEN [exc |-> "", ret |-> TRUE]
    ELSE IF raise_exception THEN [exc |-> "ValueError", ret |-> FALSE]
                            ELSE [exc |-> "", ret |-> FALSE]

\* method_util.system_variable('workspace'): the narrative's workspace.
system_variable(name) == "ws.1.narrative"

\* ------------------------------------------------------------ check_method

\* The error of a raise: which ValueError it is and the list it reports.
Error(kind, items, method_id, tag) ==
    [kind |-> kind, items |-> items, method_id |-> method_id, tag |-> tag]
NoError == Error("", <<>>, "", "")

check_method(specs, method_id, tag, raise_exception) ==
    LET tag_ok == check_tag(tag, raise_exception)
    IN  IF tag_ok.exc # "" THEN [exc |-> tag_ok.exc, ret |-> FALSE, kind |-> "tag"]
        ELSE IF ~tag_ok.ret THEN [exc |-> "", ret |-> FALSE, kind |-> ""]
        ELSE IF method_id \notin DOMAIN specs[tag]
             THEN IF raise_exception
                  THEN [exc |-> "ValueError", ret |-> FALSE, kind |-> "method_id"]
                  ELSE [exc |-> "", ret |-> FALSE, kind |-> ""]
             ELSE [exc |-> "", ret |-> TRUE, kind |-> ""]

\* -------------------------------------------------------------- run_method

\* kwargs.get(key, None)
Get(kwargs, key) == IF key \in DOMAIN kwargs THEN kwargs[key] ELSE None

\* [ p['id'] for p in spec_params ]
spec_param_ids(spec_params) == [i \in 1..Len(spec_params) |-> spec_params[i]["id"]]

\* Line 233: the test that puts p's id into missing_params.
IsMissing(p, kwargs) == ~p["optional"] /\ ~Truthy(Get(kwargs, p["id"]))

\* Lines 231-234.
missing_params(spec_params, kwargs) ==
    LET Missing(p) == IsMissing(p, kwargs)
    IN  spec_param_ids(SelectSeq(spec_params, Missing))

\* An unknown-parameter test that tells every key unknown.
extra_params_AllKeys(keys, spec_params) == keys

\* Lines 239-242: keys is kwargs.keys(), in the order the dict yields them.
extra_params(keys, spec_params) ==
    LET ids == spec_param_ids(spec_params)
        Extra(p) == ~\E i \in 1..Len(ids) : ids[i] = p
    IN  SelectSeq(keys, Extra)

\* "{} - {}".format(p['id'], err)
Entry(id, err) == [id |-> id, sep |-> " - ", err |-> err]

\* Lines 253-255: what the check r of parameter id adds to the entries, the
\* checked parameters (each with what _check_parameter did) and the lookups.
Checked(id, acc, r) ==
    [exc |-> r.exc,
     param_errors |-> IF r.exc = "" /\ ~IsNone(r.ret)
                      THEN Append(acc.param_errors, Entry(id, r.ret))
                      ELSE acc.param_errors,
     checked |-> Append(acc.checked, [id |-> id, exc |-> r.exc, err |-> r.ret]),
     lookups |-> acc.lookups \o r.lookups]

\* Lines 252-255: one round of the loop, for descriptor p.
ValueRound(p, kwargs, workspace, ws_client, acc) ==
    IF p["id"] \notin DOMAIN kwargs THEN acc
    ELSE Checked(p["id"], acc,
                 _check_parameter(p, kwargs[p["id"]], workspace, ws_client))

\* Lines 251-255: the loop over spec_params[i..]; an exception of
\* _check_parameter ends it.
RECURSIVE ValueLoop(_, _, _, _, _, _)
ValueLoop(spec_params, kwargs, workspace, ws_client, i, acc) ==
    IF i > Len(spec_params) \/ acc.exc # "" THEN acc
    ELSE ValueLoop(spec_params, kwargs, workspace, ws_client, i + 1,
                   ValueRound(spec_params[i], kwargs, workspace, ws_client, acc))

param_errors(spec_params, kwargs, workspace, ws_client) ==
    ValueLoop(spec_params, kwargs, workspace, ws_client, 1,
              [exc |-> "", param_errors |-> <<>>, checked |-> <<>>, lookups |-> <<>>])

\* What one call of run_method did: the exception that escaped it (exc, with
\* error for a ValueError of its own) or its return; whether it built the
\* descriptors (built); the steps it ran; the parameters it handed to
\* _check_parameter (checked); the lookups made.
Outcome(exc, error, built, steps, checked, lookups) ==
    [exc |-> exc, error |-> error, built |-> built, steps |-> steps,
     checked |-> checked, lookups |-> lookups]

\* A run that never tests the version against the tag.
VersionError_Ignored(tag, version) == FALSE

\* Lines 219-220.
VersionError(tag, version) == ~IsNone(version) /\ tag # "release"

\* Lines 256-259: the end of the run, from what the value loop gave.
ValueOutcome(vals, method_id, tag) ==
    IF vals.exc # ""
    THEN Outcome(vals.exc, NoError, TRUE, <<"presence", "unknown", "values">>,
                 vals.checked, vals.lookups)
    ELSE IF Len(vals.param_errors) # 0
    THEN Outcome("ValueError", Error("values", vals.param_errors, method_id, tag),
                 TRUE, <<"presence", "unknown", "values">>, vals.checked, vals.lookups)
    ELSE Outcome("", NoError, TRUE, <<"presence", "unknown", "values">>,
                 vals.checked, vals.lookups)

\* Lines 246-259, once no parameter is missing or unknown.
ValueStep(spec_params, method_id, tag, kwargs, ws_client) ==
    ValueOutcome(param_errors(spec_params, kwargs, system_variable("workspace"), ws_client),
                 method_id, tag)

\* Lines 238-259, once no parameter is missing.
UnknownStep(spec_params, method_id, tag, kwargs, keys, ws_client) ==
    LET extra == extra_params(keys, spec_params)
    IN  IF Len(extra) # 0
        THEN Outcome("ValueError", Error("unknown", extra, method_id, tag),
                     TRUE, <<"presence", "unknown">>, <<>>, <<>>)
        ELSE ValueStep(spec_params, method_id, tag, kwargs, ws_client)

\* A presence step that goes on to the next step with parameters missing.
PresenceStep_NoRaise(spec_params, method_id, tag, kwargs, keys, ws_client) ==
    UnknownStep(spec_params, method_id, tag, kwargs, keys, ws_client)

\* Lines 222-259, past the intro tests.
PresenceStep(spec_params, method_id, tag, kwargs, keys, ws_client) ==
    LET missing == missing_params(spec_params, kwargs)
    IN  IF Len(missing) # 0
        THEN Outcome("ValueError", Error("missing", missing, method_id, tag),
                     TRUE, <<"presence">>, <<>>, <<>>)
        ELSE UnknownStep(spec_params, method_id, tag, kwargs, keys, ws_client)

\* run_method(method_id, tag, version, **kwargs) on the loaded specs; keys is
\* the order of kwargs.keys(), ws_client the workspace service during the call.
RunMethod(specs, method_id, tag, version, kwargs, keys, ws_client) ==
    LET intro == check_method(specs, method_id, tag, TRUE)
    IN  IF intro.exc # ""
        THEN Outcome(intro.exc, Error(intro.kind, <<>>, method_id, tag),
                     FALSE, <<>>, <<>>, <<>>)
        ELSE IF VersionError(tag, version)
        THEN Outcome("ValueError", Error("version", <<>>, method_id, tag),
                     FALSE, <<>>, <<>>, <<>>)
        ELSE PresenceStep(_method_params(specs[tag][method_id]),
                          method_id, tag, kwargs, keys, ws_client)

\* ----------------------------------------------------------- reload_methods

\* Lines 55-58: the specs of one tag, keyed by spec['info']['id'] (a later spec
\* of the same id replaces an earlier one).
SpecDict(specs) ==
    [id \in {specs[i]["info"]["id"] : i \in 1..Len(specs)} |->
        LET last == CHOOSE i \in 1..Len(specs) :
                        /\ specs[i]["info"]["id"] = id
                        /\ \A j \in (i + 1)..Len(specs) : specs[j]["info"]["id"] # id
        IN  specs[last]]

\* Lines 52-58: nms_store[tag] is what nms.list_methods_spec({'tag': tag}) returns.
ReloadedSpecs(nms_store) ==
    [tag \in {method_version_tags[i] : i \in 1..Len(method_version_tags)} |->
        SpecDict(nms_store[tag])]

\* ------------------------------------------------------------ the inputs

\* A raw parameter record of a specification document.
Raw(id, optional, field_type, allow_multiple) ==
    [id |-> id, optional |-> optional, short_hint |-> "", description |-> "",
     field_type |-> field_type, allow_multiple |-> allow_multiple]
WithText(p, opts) == Put(p, "text_options", opts)
WithDropdown(p) ==
    Put(p, "dropdown_options",
        [options |-> << [value |-> PyStr("fast")], [value |-> PyStr("accurate")] >>])

\* Type patterns, and the workspace: lib1 is a paired-end library, gen1 a genome.
LibType == <<"KBaseAssembly", ".", "PairedEndLibrary">>
GenomeType == <<"KBaseGenomes", ".", "Genome">>
WsUp == [up |-> TRUE,
         objects |-> (PyStr("lib1") :> (LibType \o <<"-2.0">>))
                     @@ (PyStr("gen1") :> (GenomeType \o <<"-1.0">>))]
WsDown == [up |-> FALSE, objects |-> WsUp.objects]
Workspaces == {WsUp, WsDown}

Doc(id, parameters) ==
    [info |-> [id |-> id, name |-> "", subtitle |-> "", ver |-> "1.0.0"],
     parameters |-> parameters]

\* The parameters "a" and "b" of the stored methods.
PoolA ==
    { WithText(Raw("a", 0, "text", 1), [valid_ws_types |-> <<LibType>>]),
      WithText(Raw("a", 0, "text", 1),
               [validate_as |-> "int", min_int |-> 0, max_int |-> MaxNum]),
      WithText(Raw("a", 1, "text", 0),
               [validate_as |-> "float", min_float |-> 0, max_float |-> 1]),
      WithText(Raw("a", 1, "text", 1), [regex_constraint |-> <<"^[a-z0-9]+$">>]),
      WithDropdown(Raw("a", 0, "dropdown", 0)) }
PoolB ==
    { WithText(Raw("b", 0, "text", 0),
               [is_output_name |-> TRUE, valid_ws_types |-> <<LibType>>]),
      WithText(Raw("b", 1, "text", 0),
               [validate_as |-> "int", min_int |-> 0, max_int |-> MaxNum]),
      WithText(Raw("b", 0, "text", 0), [valid_ws_types |-> <<GenomeType, LibType>>]),
      WithText(Raw("b", 1, "text", 0),
               [validate_as |-> "int", valid_ws_types |-> <<LibType>>]),
      WithText(Raw("b", 1, "text", 0), [regex_constraint |-> <<"^[a-z0-9]+$">>]) }

\* The method stores: method "m" with both parameters (in either order, by tag),
\* or with one parameter.
Stores ==
    { [release |-> <<Doc("m", <<pa, pb>>)>>, beta |-> <<Doc("m", <<pb, pa>>)>>,
       dev |-> <<>>] : pa \in PoolA, pb \in PoolB }
    \cup
    { [release |-> <<Doc("m", <<pa>>)>>, beta |-> <<>>,
       dev |-> <<Doc("m2", <<pa>>), Doc("m", <<pa>>)>>] : pa \in PoolA }

\* All sequences over S of length at most n.
RECURSIVE SeqsUpTo(_, _)
SeqsUpTo(S, n) ==
    IF n = 0 THEN {<<>>}
    ELSE LET shorter == SeqsUpTo(S, n - 1)
         IN  shorter \cup {Append(q, x) : q \in shorter, x \in S}

\* All orders of the elements of S.
RECURSIVE Perms(_)
Perms(S) ==
    IF S = {} THEN {<<>>}
    ELSE UNION {{<<x>> \o q : q \in Perms(S \ {x})} : x \in S}

ElemValues == {PyStr("lib1"), PyStr("nolib"), PyInt(1)}
ListValues == {PyList(q) : q \in SeqsUpTo(ElemValues, MaxListLen)}
ArgKeys == {"a", "b", "x"}
ArgValues(key) ==
    CASE key = "a" ->
            {None, PyDict, PyStr(""), PyStr("lib1"), PyStr("gen1"), PyStr("nolib"),
             PyStr("fast"), PyInt(0), PyInt(1), PyInt(MaxNum + 1)} \cup ListValues
      [] key = "b" ->
            {None, PyStr(""), PyStr("lib1"), PyStr("gen1"), PyStr("nolib"),
             PyInt(0), PyInt(1), PyInt(MaxNum + 1)}
      [] OTHER -> {PyStr("x")}
KwargsOn(K) ==
    {kw \in [K -> UNION {ArgValues(key) : key \in K}] :
        \A key \in K : kw[key] \in ArgValues(key)}
KwargsSpace == UNION {KwargsOn(K) : K \in SUBSET ArgKeys}
\* The mappings tried on every call, also one that fails its intro tests.
KwargsCore ==
    {kw \in KwargsSpace : \A key \in DOMAIN kw : kw[key] \in {None, PyStr("lib1"), PyInt(1), PyStr("x")}}

MethodIds == {"m", "unknown_method"}
Tags == {"release", "beta", "dev", "alpha"}
Versions == {None, PyStr(">=1.0.0")}

\* ------------------------------------------------------------ the machine

VARIABLES
    nms_store,      \* what the method store returns for each tag
    method_specs,   \* MethodManager.method_specs
    op,             \* the call made last ("" when it has returned to its caller)
    args,           \* its arguments
    result          \* what it did

vars == <<nms_store, method_specs, op, args, result>>

NoArgs == [none |-> TRUE]

\* __init__: reload_methods() against the store.
Init ==
    /\ nms_store \in Stores
    /\ method_specs = ReloadedSpecs(nms_store)
    /\ op = ""
    /\ args = NoArgs
    /\ result = NoArgs

reload_methods ==
    /\ op = ""
    /\ method_specs' = ReloadedSpecs(nms_store)
    /\ op' = "reload_methods"
    /\ UNCHANGED <<nms_store, args, result>>

check_method_call ==
    /\ op = ""
    /\ \E method_id \in MethodIds, tag \in Tags, raise_exception \in BOOLEAN :
          /\ op' = "check_method"
          /\ args' = [method_id |-> method_id, tag |-> tag,
                      raise_exception |-> raise_exception]
          /\ result' = check_method(method_specs, method_id, tag, raise_exception)
    /\ UNCHANGED <<nms_store, method_specs>>

\* method_usage: the intro test, then the descriptors of the usage.
method_usage ==
    /\ op = ""
    /\ \E method_id \in MethodIds, tag \in Tags :
          LET intro == check_method(method_specs, method_id, tag, TRUE)
          IN  /\ op' = "method_usage"
              /\ args' = [method_id |-> method_id, tag |-> tag]
              /\ result' = IF intro.exc # ""
                           THEN [exc |-> intro.exc, params |-> <<>>]
                           ELSE [exc |-> "",
                                 params |-> _method_params(method_specs[tag][method_id])]
    /\ UNCHANGED <<nms_store, method_specs>>

run_method ==
    /\ op = ""
    /\ \E method_id \in MethodIds, tag \in Tags, version \in Versions,
          kwargs \in KwargsSpace, ws_client \in Workspaces :
          /\ \/ kwargs \in KwargsCore
             \/ check_method(method_specs, method_id, tag, FALSE).ret /\ IsNone(version)
          /\ \E keys \in Perms(DOMAIN kwargs) :
                /\ op' = "run_method"
                /\ args' = [method_id |-> method_id, tag |-> tag, version |-> version,
                            kwargs |-> kwargs]
                /\ result' = RunMethod(method_specs, method_id, tag, version, kwargs,
                                       keys, ws_client)
    /\ UNCHANGED <<nms_store, method_specs>>

\* The call returns (or raises) to its caller, who may call again.
returns ==
    /\ op # ""
    /\ op' = ""
    /\ args' = NoArgs
    /\ result' = NoArgs
    /\ UNCHANGED <<nms_store, method_specs>>

Next == reload_methods \/ check_method_call \/ method_usage \/ run_method \/ returns

Spec == Init /\ [][Next]_vars

\* ------------------------------------------- the builder and the validators

\* The text_options of the raw parameters handed to the builder and the
\* validators: every choice of the four bound options, and every choice of
\* the output flag, the reference types, the declared type and the regex list.
EmptyDict == [x \in {} |-> 0]
BoundKeys == {"min_float", "min_int", "max_float", "max_int"}
BoundOpts == UNION {[K -> 0..MaxNum] : K \in SUBSET BoundKeys}
OneOpt(key, vals) == {EmptyDict} \cup {key :> val : val \in vals}
RefOpts ==
    { o1 @@ o2 @@ o3 @@ o4 :
        o1 \in OneOpt("is_output_name", BOOLEAN),
        o2 \in OneOpt("valid_ws_types", {<<LibType>>, <<GenomeType, LibType>>}),
        o3 \in OneOpt("validate_as", {"int", "float"}),
        o4 \in OneOpt("regex_constraint", {<<>>, <<"^[a-z0-9]+$">>}) }
WideRaw ==
    { WithText(Raw("p", 0, ft, am), o) :
        ft \in {"text", "int", "float"}, am \in {0, 1}, o \in BoundOpts }
    \cup { WithText(Raw("p", opt, "text", am), o) :
             opt \in {0, 1}, am \in {0, 1}, o \in RefOpts }
    \cup { WithDropdown(Raw("p", opt, ft, 0)) :
             opt \in {0, 1}, ft \in {"dropdown", "Dropdown"} }
    \cup { WithText(WithDropdown(Raw("p", 1, "dropdown", 1)), o) : o \in RefOpts }
    \cup { Raw("p", opt, ft, am) :
             opt \in {0, 1}, ft \in {"text", "int", "float"}, am \in {0, 1} }

\* A second parameter, for the documents of two parameters.
SecondRaw ==
    { Raw("q", 0, "text", 0),
      WithText(Raw("q", 0, "text", 0), [is_output_name |-> TRUE]),
      WithText(Raw("q", 1, "text", 0),
               [is_output_name |-> TRUE, valid_ws_types |-> <<GenomeType>>]) }
WideDocs ==
    {Doc("m", <<p>>) : p \in WideRaw}
    \cup {Doc("m", <<q, p>>) : p \in WideRaw, q \in SecondRaw}

Numbers == (0 - 1)..(MaxNum + 1)
ScalarValues ==
    {None, PyDict, PyStr(""), PyStr("lib1"), PyStr("gen1"), PyStr("nolib"),
     PyStr("fast"), PyStr("1")}
    \cup {PyInt(n) : n \in Numbers} \cup {PyFloat(n) : n \in Numbers}

EmptyStore == [release |-> <<>>, beta |-> <<>>, dev |-> <<>>]

InitParam ==
    /\ nms_store = EmptyStore
    /\ method_specs = ReloadedSpecs(nms_store)
    /\ op = ""
    /\ args = NoArgs
    /\ result = NoArgs

method_params_call ==
    /\ op = ""
    /\ \E spec \in WideDocs :
          /\ op' = "_method_params"
          /\ args' = [spec |-> spec]
          /\ result' = [exc |-> "", params |-> _method_params(spec)]
    /\ UNCHANGED <<nms_store, method_specs>>

validate_param_value_call ==
    /\ op = ""
    /\ \E p \in WideRaw, value \in ScalarValues \cup {PyList(<<PyInt(1)>>)},
          ws_client \in Workspaces :
          /\ op' = "_validate_param_value"
          /\ args' = [param |-> ParamInfo(p), value |-> value]
          /\ result' = _validate_param_value(ParamInfo(p), value,
                                             system_variable("workspace"), ws_client)
    /\ UNCHANGED <<nms_store, method_specs>>

check_parameter_call ==
    /\ op = ""
    /\ \E p \in WideRaw, value \in ListValues \cup {PyStr("lib1"), PyInt(1)},
          ws_client \in Workspaces :
          /\ op' = "_check_parameter"
          /\ args' = [param |-> ParamInfo(p), value |-> value]
          /\ result' = _check_parameter(ParamInfo(p), value,
                                        system_variable("workspace"), ws_client)
    /\ UNCHANGED <<nms_store, method_specs>>

NextParam ==
    method_params_call \/ validate_param_value_call \/ check_parameter_call \/ returns

SpecParam == InitParam /\ [][NextParam]_vars

\* =================================================================== claims

Range(q) == {q[i] : i \in 1..Len(q)}

\* The intro tests of a run_method call, from its arguments.
BadTag == args.tag \notin {"release", "beta", "dev"}
UnknownMethod == ~BadTag /\ args.method_id \notin DOMAIN method_specs[args.tag]
BadVersion == ~IsNone(args.version) /\ args.tag # "release"
PreconditionViolated == BadTag \/ UnknownMethod \/ BadVersion

\* A run_method call that got past its intro tests, and its descriptors.
Ran == op = "run_method" /\ ~PreconditionViolated
Descriptors == _method_params(method_specs[args.tag][args.method_id])
DescriptorIds == {Descriptors[i]["id"] : i \in 1..Len(Descriptors)}
Descriptor(id) == Descriptors[CHOOSE i \in 1..Len(Descriptors) : Descriptors[i]["id"] = id]

\* An empty value: None, the empty string, the empty list, the empty dict.
Empty(value) == value \in {None, PyStr(""), PyList(<<>>), PyDict}
\* The required parameters given no value, or an empty one.
ExpectedMissing ==
    {id \in DescriptorIds :
        /\ ~Descriptor(id)["optional"]
        /\ (id \notin DOMAIN args.kwargs \/ Empty(args.kwargs[id]))}
\* The required parameters given no value, or one that Python takes as false.
FalsyRequired ==
    {id \in DescriptorIds :
        /\ ~Descriptor(id)["optional"]
        /\ (id \notin DOMAIN args.kwargs \/ ~Truthy(args.kwargs[id]))}
ExpectedUnknown == DOMAIN args.kwargs \ DescriptorIds
\* The supplied parameters whose value is invalid whatever the workspace holds.
ExpectedInvalid ==
    {id \in DescriptorIds \cap DOMAIN args.kwargs :
        \A w \in Workspaces :
            LET r == _check_parameter(Descriptor(id), args.kwargs[id],
                                      system_variable("workspace"), w)
            IN  r.exc = "" /\ ~IsNone(r.ret)}

\* What the run reported, by kind of error.
Reported(kind) ==
    IF result.exc = "ValueError" /\ result.error.kind = kind
    THEN Range(result.error.items) ELSE {}
ReportedValueIds == {e.id : e \in Reported("values")}

C3_MissingAreTheEmptyRequired == Ran => Reported("missing") = ExpectedMissing

\* C4: a run_method call that violates a precondition (tag, method id, version)
\* raises one ValueError for it at once: no descriptor is built, no step runs,
\* no parameter is checked and no lookup is made, whatever the arguments.
C4_PreconditionsFailFast ==
    (op = "run_method" /\ PreconditionViolated) =>
        /\ result.exc = "ValueError"
        /\ result.error.kind = (IF BadTag THEN "tag"
                                ELSE IF UnknownMethod THEN "method_id" ELSE "version")
        /\ result.error.items = <<>>
        /\ ~result.built
        /\ result.steps = <<>> /\ result.checked = <<>> /\ result.lookups = <<>>

\* A version given with the tag beta, and arguments that would be looked up.
C4_Witness ==
    /\ op = "run_method" /\ BadVersion /\ ~BadTag /\ ~UnknownMethod
    /\ "a" \in DOMAIN args.kwargs /\ args.kwargs["a"] = PyStr("lib1")
    /\ "allowed_types" \in DOMAIN Descriptor("a")
    /\ result.exc = "ValueError" /\ ~result.built

\* The lookups of the run that found no object (or could not reach the service).
FailedLookups == {l \in Range(result.lookups) : ~l.found}
\* Whether an error string holds the not-found text for the object name.
TellsNotFound(err, name) ==
    /\ err.k = "msg"
    /\ \E i \in 1..Len(err.parts) :
          /\ err.parts[i].text = ErrNotFound(name, "").parts[1].text
          /\ err.parts[i].args[1] = name
SuppliedIds == DescriptorIds \cap DOMAIN args.kwargs
HasRegex == \E id \in DescriptorIds : "regex_constraint" \in DOMAIN Descriptor(id)

\* What C5 says of a run in which a lookup failed.
LookupFailureReported ==
    /\ result.exc = "ValueError" /\ result.error.kind = "values"
    /\ \A l \in FailedLookups :
          \E e \in Reported("values") : e.id = l.param /\ TellsNotFound(e.err, l.name)
    /\ \A id \in SuppliedIds : \E c \in Range(result.checked) : c.id = id /\ c.exc = ""
    /\ \A c \in Range(result.checked) :
          ~IsNone(c.err) => Entry(c.id, c.err) \in Reported("values")

\* C5 (as claimed): when a lookup fails in a run, the failure becomes a value
\* error of that parameter, the value checks of all other supplied parameters
\* still run, and their errors are reported together with the lookup error.
C5_LookupFailureDoesNotStopTheRun == (Ran /\ FailedLookups # {}) => LookupFailureReported

\* The same, for the methods none of whose parameters has a regex_constraint
\* (the runs the NameError of the regex check cannot end).
C5_HoldsWithoutRegex ==
    (Ran /\ FailedLookups # {} /\ ~HasRegex) => LookupFailureReported

\* The error parts of the invalid elements of a list, in order, as
\* _validate_param_value gives them under workspace service w.
RECURSIVE ElementReasons(_, _, _, _)
ElementReasons(d, items, w, i) ==
    IF i > Len(items) THEN <<>>
    ELSE LET r == _validate_param_value(d, items[i], system_variable("workspace"), w)
         IN  (IF r.exc = "" /\ ~IsNone(r.ret) THEN r.ret.parts ELSE <<>>)
             \o ElementReasons(d, items, w, i + 1)
EntriesOf(id) ==
    LET ForId(e) == e.id = id
    IN  IF result.exc = "ValueError" /\ result.error.kind = "values"
        THEN SelectSeq(result.error.items, ForId) ELSE <<>>
ListIds == {id \in SuppliedIds : Descriptor(id)["allow_multiple"] /\ IsList(args.kwargs[id])}

\* What C6 says of the list supplied for parameter id.
ListAggregated(id) ==
    \E w \in Workspaces :
        LET d == Descriptor(id)
            items == args.kwargs[id].items
            reasons == ElementReasons(d, items, w, 1)
        IN  /\ \A i \in 1..Len(items) :
                  _validate_param_value(d, items[i], system_variable("workspace"), w).exc = ""
            /\ EntriesOf(id) = IF reasons = <<>> THEN <<>>
                               ELSE <<Entry(id, Msg(reasons))>>

\* C6 (as claimed): in a run that reaches the value checks, a list supplied for
\* an allow_multiple parameter has every element validated, and the run yields
\* one entry "<id> - <reasons of the invalid elements, joined in order>", or no
\* entry when no element is invalid.
C6_OneEntryPerListParameter ==
    (Ran /\ result.steps = <<"presence", "unknown", "values">>) =>
        \A id \in ListIds : ListAggregated(id)

\* The same, for the methods none of whose parameters has a regex_constraint.
C6_HoldsWithoutRegex ==
    (Ran /\ result.steps = <<"presence", "unknown", "values">> /\ ~HasRegex) =>
        \A id \in ListIds : ListAggregated(id)

\* Whether the lookups made for value under descriptor d are allowed ones: d has
\* allowed_types and is no output, and each looked-up name is the value (or an
\* element of the list) and got past the scalar-kind and int/float type checks.
LookupsAllowed(d, value, lookups) ==
    \A l \in Range(lookups) :
        /\ l.param = d["id"]
        /\ "allowed_types" \in DOMAIN d /\ ~d["is_output"]
        /\ l.name = value \/ (IsList(value) /\ d["allow_multiple"] /\ l.name \in Range(value.items))
        /\ l.name.k \in {"str", "int", "float"}
        /\ d["type"] = "int" => l.name.k = "int"
        /\ d["type"] = "float" => l.name.k \in {"int", "float"}

\* C9: the reference lookup is made only for a value checked against a
\* descriptor that has allowed_types and is no output, and never for a value
\* the scalar-kind or int/float type check rejected.
C9_LookupOnlyForReferenceInputs ==
    /\ (op = "run_method" /\ result.built) =>
          \A l \in Range(result.lookups) :
              /\ l.param \in SuppliedIds
              /\ LookupsAllowed(Descriptor(l.param), args.kwargs[l.param], <<l>>)
    /\ op \in {"_validate_param_value", "_check_parameter"} =>
          LookupsAllowed(args.param, args.value, result.lookups)

\* A run that checked an output parameter carrying allowed_types and an int
\* parameter given a string, and looked up the reference input only.
C9_Witness ==
    /\ Ran /\ SuppliedIds = {"a", "b"}
    /\ "allowed_types" \in DOMAIN Descriptor("b")
    /\ Descriptor("b")["is_output"]
    /\ Len(result.checked) = Cardinality(SuppliedIds)
    /\ result.lookups # <<>>
    /\ \A l \in Range(result.lookups) : l.param = "a"

\* ------------------------------------------- claims on the validators

HasMin == "min_val" \in DOMAIN args.param
HasMax == "max_val" \in DOMAIN args.param
\* A numeric descriptor with a bound and no other constraint, and a value of its type.
NumericCase ==
    /\ op = "_validate_param_value"
    /\ args.param["type"] \in {"int", "float"}
    /\ HasMin \/ HasMax
    /\ DOMAIN args.param \cap {"allowed_types", "allowed_values", "regex_constraint"} = {}
    /\ \/ args.value.k = "int"
       \/ args.value.k = "float" /\ args.param["type"] = "float"
Number == IF args.value.k = "int" THEN args.value.n ELSE args.value.f
Accepted == result.exc = "" /\ IsNone(result.ret)
BoundsInclusive ==
    /\ (HasMin /\ Number = args.param["min_val"]) => Accepted
    /\ (HasMax /\ Number = args.param["max_val"]) => Accepted
    /\ (HasMin /\ Number = args.param["min_val"] - 1) =>
          result.exc = "" /\ result.ret = ErrTooSmall(args.value, args.param["min_val"])
    /\ (HasMax /\ Number = args.param["max_val"] + 1) =>
          result.exc = "" /\ result.ret = ErrTooLarge(args.value, args.param["max_val"])
    /\ ((HasMin => args.param["min_val"] <= Number)
          /\ (HasMax => Number <= args.param["max_val"])) => Accepted
BoundsConsistent == (HasMin /\ HasMax) => args.param["min_val"] <= args.param["max_val"]

\* C7 (as claimed): for a numeric descriptor with min_val and/or max_val and no
\* other constraint, a value equal to a bound is accepted, one unit below min_val
\* is rejected with "should be >=", one unit above max_val with "should be <=",
\* and every value within the bounds is accepted.
C7_BoundsInclusive == NumericCase => BoundsInclusive

\* C7 (amended): the same, for descriptors whose min_val does not exceed their
\* max_val when both are set.
C7_BoundsInclusiveWhenConsistent == (NumericCase /\ BoundsConsistent) => BoundsInclusive

\* Values at both bounds, one below and one above, each with its outcome.
C7_Witness ==
    /\ NumericCase /\ HasMin /\ HasMax
    /\ args.param["min_val"] < args.param["max_val"]
    /\ Number = args.param["max_val"] + 1
    /\ result.ret = ErrTooLarge(args.value, args.param["max_val"])

\* C8 (as claimed): _validate_param_value and _check_parameter return None or
\* one message for every built descriptor and every value; no exception escapes.
C8_ValidatorsNeverRaise ==
    op \in {"_validate_param_value", "_check_parameter"} =>
        /\ result.exc = ""
        /\ result.ret.k \in {"none", "msg"}

\* ---------------------------------------------- claims on the builder

Built == Range(result.params)
RawOpt(r, key) == "text_options" \in DOMAIN r /\ key \in DOMAIN r["text_options"]

\* C10 (as claimed): no built descriptor has allowed_types set and is_output true.
C10_AllowedTypesOnlyOnInputs ==
    op = "_method_params" =>
        \A d \in Built : "allowed_types" \in DOMAIN d => ~d["is_output"]

\* C10 (amended): a built descriptor carries allowed_types exactly when the raw
\* parameter's text_options holds valid_ws_types (and then that list), whatever
\* its is_output, which is is_output_name when given and false otherwise; so a
\* raw parameter with is_output_name true and valid_ws_types yields a descriptor
\* with both.
C10_AllowedTypesFollowValidWsTypes ==
    op = "_method_params" =>
        /\ Len(result.params) = Len(args.spec["parameters"])
        /\ \A r \in Range(args.spec["parameters"]) :
              \E d \in Built :
                  /\ d["id"] = r["id"]
                  /\ "allowed_types" \in DOMAIN d <=> RawOpt(r, "valid_ws_types")
                  /\ RawOpt(r, "valid_ws_types") =>
                        d["allowed_types"] = r["text_options"]["valid_ws_types"]
                  /\ d["is_output"] = IF RawOpt(r, "is_output_name")
                                      THEN r["text_options"]["is_output_name"]
                                      ELSE FALSE

\* An output parameter whose text_options also holds valid_ws_types, built.
C10_Witness ==
    /\ op = "_method_params"
    /\ \E r \in Range(args.spec["parameters"]) :
          /\ RawOpt(r, "valid_ws_types") /\ RawOpt(r, "is_output_name")
          /\ r["text_options"]["is_output_name"]
    /\ \E d \in Built : "allowed_types" \in DOMAIN d /\ d["is_output"]

=============================================================================
